---- MODULE Spec2Model ----
(***************************************************************************)
(* A model of joebot-markov-chain: the chain data model (Vocabulary,       *)
(* Sources, ChainEntry), ingestion (append_text, append_message,           *)
(* source_by_names, push_text_entries) and generation (generate,           *)
(* generate_in_date_range, generate_sequence, seq_to_text).                *)
(*                                                                         *)
(* A text is a sequence of one-character strings; a word is a non-empty    *)
(* sequence of characters.  Word ids are 0-based as in the code, sequence  *)
(* positions are 1-based, so the word with id i is words[i + 1].           *)
(***************************************************************************)
EXTENDS Integers, Sequences, FiniteSets, TLC

\* ------------------------------------------------------------------------
\* Program constants
\* ------------------------------------------------------------------------
NGRAM_CNT == 2

MAX_TRIES == 20

\* ------------------------------------------------------------------------
\* Bounds of the model
\* ------------------------------------------------------------------------
\* Length of a text drawn from Texts.
MaxChars == 7

\* Number of ingestion calls in one behaviour of SpecSources.
MaxCalls == 3

\* Largest min_words and max_words of a generation call.
MaxMinWords == 3

MaxMaxWords == 3

\* Number of events of a stream drawn from DumpStreams.
MaxEvents == 5

\* ------------------------------------------------------------------------
\* Input alphabets
\* ------------------------------------------------------------------------
Separators == {" ", "\n"}

Chars == {"a", "."} \cup Separators

Names == {"x", "y"}

RECURSIVE SeqsUpTo(_, _)
SeqsUpTo(S, n) ==
    IF n = 0 THEN {<<>>}
    ELSE LET shorter == SeqsUpTo(S, n - 1)
         IN  shorter \cup {Append(s, c) : s \in {t \in shorter : Len(t) = n - 1}, c \in S}

\* Caller-supplied alias lists: empty, single, two names in both orders, and
\* a repeated name.
NameLists == SeqsUpTo(Names, 2)

DefaultDatestamp == [year |-> 0, day |-> 0]

Datestamps == {DefaultDatestamp, [year |-> 2018, day |-> 21]}

\* ------------------------------------------------------------------------
\* Helpers over sequences
\* ------------------------------------------------------------------------
Range(s) == {s[i] : i \in 1..Len(s)}

\* Index (1-based) of the first element of s equal to x, 0 when absent.
IndexOf(s, x) ==
    IF \E i \in 1..Len(s) : s[i] = x
    THEN CHOOSE i \in 1..Len(s) : s[i] = x /\ \A j \in 1..(i - 1) : s[j] # x
    ELSE 0

\* Mutant of insert_full: no lookup, the value is always appended.
insert_full_always(set, value) == [idx |-> Len(set), set |-> Append(set, value)]

\* IndexSet::insert_full: the index of the value, inserting it at the end
\* when it is new.
insert_full(set, value) ==
    IF IndexOf(set, value) # 0
    THEN [idx |-> IndexOf(set, value) - 1, set |-> set]
    ELSE [idx |-> Len(set), set |-> Append(set, value)]

\* IndexSet::from_iter: insertion order, duplicates dropped.
RECURSIVE IndexSet_from_iter(_)
IndexSet_from_iter(items) ==
    IF items = <<>> THEN <<>>
    ELSE LET init == IndexSet_from_iter(SubSeq(items, 1, Len(items) - 1))
         IN  insert_full(init, items[Len(items)]).set

\* ------------------------------------------------------------------------
\* ChainPrefix / ChainSuffix / ChainEntry
\* ------------------------------------------------------------------------
ChainPrefix_starting(word_idxs) == [words |-> word_idxs, starting |-> TRUE]

ChainPrefix_nonstarting(word_idxs) == [words |-> word_idxs, starting |-> FALSE]

ChainSuffix_terminal(word_idx) == [word_idx |-> word_idx, is_terminal |-> TRUE]

ChainSuffix_nonterminal(word_idx) == [word_idx |-> word_idx, is_terminal |-> FALSE]

ChainEntry(prefix, suffix, datestamp) ==
    [prefix |-> prefix, suffix |-> suffix, datestamp |-> datestamp]

TextSource(names, entries) == [names |-> names, entries |-> entries]

\* ------------------------------------------------------------------------
\* push_text_entries
\* ------------------------------------------------------------------------
\* str::split on ' ' and '\n': every piece between separators, the empty
\* ones included.
RECURSIVE split_from(_, _, _)
split_from(text, i, piece) ==
    IF i > Len(text) THEN <<piece>>
    ELSE IF text[i] \in Separators
         THEN <<piece>> \o split_from(text, i + 1, <<>>)
         ELSE split_from(text, i + 1, Append(piece, text[i]))

split(text) == split_from(text, 1, <<>>)

\* Mutant of keep_word: the filter keeps every piece.
keep_every_word(word) == TRUE

\* .filter(|word| !word.is_empty())
keep_word(word) == word # <<>>

filter_non_empty(pieces) == SelectSeq(pieces, keep_word)

\* .map(|word| words.insert_full(word).0).collect(): the ids of the tokens
\* and the vocabulary after interning them in order.
RECURSIVE intern_all(_, _)
intern_all(tokens, words) ==
    IF tokens = <<>> THEN [ids |-> <<>>, words |-> words]
    ELSE LET r == insert_full(words, tokens[1])
             rest == intern_all(Tail(tokens), r.set)
         IN  [ids |-> <<r.idx>> \o rest.ids, words |-> rest.words]

\* Mutant of windows: the last window is left out.
windows_short(s, n) ==
    IF Len(s) <= n THEN <<>>
    ELSE [i \in 1..(Len(s) - n) |-> SubSeq(s, i, i + n - 1)]

\* slice::windows(n)
windows(s, n) ==
    IF Len(s) < n THEN <<>>
    ELSE [i \in 1..(Len(s) - n + 1) |-> SubSeq(s, i, i + n - 1)]

\* Mutant of ends_with_punctuation: the first character is tested.
starts_with_punctuation(word) ==
    /\ word # <<>>
    /\ word[1] \in {".", "?", "!"}

\* str::ends_with(|c| c == '.' || c == '?' || c == '!')
ends_with_punctuation(word) ==
    /\ word # <<>>
    /\ word[Len(word)] \in {".", "?", "!"}

\* Mutant of is_terminal_ngram: only the suffixes of the windows are compared.
is_terminal_by_suffix(ngram, last_ngram, words, treat_ending_punctuation_as_terminal) ==
    IF treat_ending_punctuation_as_terminal
    THEN words[ngram[NGRAM_CNT + 1] + 1] # <<>>
         /\ words[ngram[NGRAM_CNT + 1] + 1][Len(words[ngram[NGRAM_CNT + 1] + 1])]
                \in {".", "?", "!"}
    ELSE ngram[NGRAM_CNT + 1] = last_ngram[NGRAM_CNT + 1]

\* Mutant of is_terminal_ngram: in the final-window mode only the prefixes
\* of the two windows are compared.
is_terminal_by_prefix(ngram, last_ngram, words, treat_ending_punctuation_as_terminal) ==
    IF treat_ending_punctuation_as_terminal
    THEN ends_with_punctuation(words[ngram[NGRAM_CNT + 1] + 1])
    ELSE SubSeq(ngram, 1, NGRAM_CNT) = SubSeq(last_ngram, 1, NGRAM_CNT)

is_terminal_ngram(ngram, last_ngram, words, treat_ending_punctuation_as_terminal) ==
    IF treat_ending_punctuation_as_terminal
    THEN ends_with_punctuation(words[ngram[NGRAM_CNT + 1] + 1])
    ELSE ngram = last_ngram

\* Mutant of starting_after: the flag is left as it was.
starting_unchanged(starting, terminal) == starting

\* starting = terminal;
starting_after(starting, terminal) == terminal

\* The loop over the windows: entries pushed so far and the starting flag.
RECURSIVE push_windows(_, _, _, _, _, _)
push_windows(ngrams, last_ngram, datestamp, words, punct, starting) ==
    IF ngrams = <<>> THEN <<>>
    ELSE LET ngram == ngrams[1]
             prefix_words == SubSeq(ngram, 1, NGRAM_CNT)
             suffix == ngram[NGRAM_CNT + 1]
             terminal == is_terminal_ngram(ngram, last_ngram, words, punct)
             entry == ChainEntry(
                 IF starting THEN ChainPrefix_starting(prefix_words)
                             ELSE ChainPrefix_nonstarting(prefix_words),
                 IF terminal THEN ChainSuffix_terminal(suffix)
                             ELSE ChainSuffix_nonterminal(suffix),
                 datestamp)
         IN  <<entry>> \o push_windows(Tail(ngrams), last_ngram, datestamp,
                                        words, punct,
                                        starting_after(starting, terminal))

\* Mutant of push_text_entries: the tokens are interned into a copy of the
\* vocabulary, which is dropped.
push_text_entries_on_copy(text, datestamp, entries, words, treat_ending_punctuation_as_terminal) ==
    LET interned == intern_all(filter_non_empty(split(text)), words)
        word_indexes == interned.ids
        n == Len(word_indexes)
    IN  IF n < NGRAM_CNT + 1
        THEN [entries |-> entries, words |-> words]
        ELSE LET last_ngram == SubSeq(word_indexes, n - NGRAM_CNT, n)
             IN  [entries |-> entries \o
                        push_windows(windows(word_indexes, NGRAM_CNT + 1), last_ngram,
                                     datestamp, interned.words,
                                     treat_ending_punctuation_as_terminal, TRUE),
                  words |-> words]

push_text_entries(text, datestamp, entries, words, treat_ending_punctuation_as_terminal) ==
    LET interned == intern_all(filter_non_empty(split(text)), words)
        word_indexes == interned.ids
        n == Len(word_indexes)
    IN  IF n < NGRAM_CNT + 1
        THEN [entries |-> entries, words |-> interned.words]
        ELSE LET last_ngram == SubSeq(word_indexes, n - NGRAM_CNT, n)
             IN  [entries |-> entries \o
                        push_windows(windows(word_indexes, NGRAM_CNT + 1), last_ngram,
                                     datestamp, interned.words,
                                     treat_ending_punctuation_as_terminal, TRUE),
                  words |-> interned.words]

\* ------------------------------------------------------------------------
\* source_by_names
\* ------------------------------------------------------------------------
source_matches(s, names) == \E i \in 1..Len(names) : names[i] \in Range(s.names)

\* Mutant of source_by_names: the last matching source is taken.
source_by_names_last(srcs, names) ==
    IF \E k \in 1..Len(srcs) : source_matches(srcs[k], names)
    THEN [idx |-> (CHOOSE k \in 1..Len(srcs) :
                       /\ source_matches(srcs[k], names)
                       /\ \A j \in (k + 1)..Len(srcs) : ~source_matches(srcs[j], names)) - 1,
          sources |-> srcs]
    ELSE [idx |-> Len(srcs),
          sources |-> Append(srcs, TextSource(IndexSet_from_iter(names), <<>>))]

\* Mutant of source_by_names: the names are tried in order, each against
\* every source, so the source of the first name that is known is taken.
source_by_names_by_name(srcs, names) ==
    IF \E k \in 1..Len(srcs) : source_matches(srcs[k], names)
    THEN LET n == CHOOSE i \in 1..Len(names) :
                      /\ \E k \in 1..Len(srcs) : names[i] \in Range(srcs[k].names)
                      /\ \A j \in 1..(i - 1) :
                             \A k \in 1..Len(srcs) : names[j] \notin Range(srcs[k].names)
         IN  [idx |-> (CHOOSE k \in 1..Len(srcs) :
                           /\ names[n] \in Range(srcs[k].names)
                           /\ \A j \in 1..(k - 1) : names[n] \notin Range(srcs[j].names)) - 1,
              sources |-> srcs]
    ELSE [idx |-> Len(srcs),
          sources |-> Append(srcs, TextSource(IndexSet_from_iter(names), <<>>))]

\* The 0-based index of the resolved source and the source list, which has
\* a new source at the end when no existing source matches.
source_by_names(srcs, names) ==
    IF \E k \in 1..Len(srcs) : source_matches(srcs[k], names)
    THEN [idx |-> (CHOOSE k \in 1..Len(srcs) :
                       /\ source_matches(srcs[k], names)
                       /\ \A j \in 1..(k - 1) : ~source_matches(srcs[j], names)) - 1,
          sources |-> srcs]
    ELSE [idx |-> Len(srcs),
          sources |-> Append(srcs, TextSource(IndexSet_from_iter(names), <<>>))]

\* ------------------------------------------------------------------------
\* State
\* ------------------------------------------------------------------------
VARIABLES
    words,      \* MarkovChain.words: the vocabulary, word id i at words[i + 1]
    sources,    \* MarkovChain.sources
    call,       \* the last ingestion call: its inputs and the source it resolved
    calls,      \* number of ingestion calls made
    drawn,      \* whether a text was drawn from Texts
    dump,       \* position of the append_message_dump call: "idle", "fold",
                \* "returned" or "panicked"
    events,     \* the events fold_html has passed to the closure, in order
    msg,        \* the ExtractedMessage the fold accumulates
    flushed,    \* the messages passed to append_message by the call, in order
    pc,         \* position of the generation call: "idle", "try", "walk",
                \* "check" or "done"
    gen,        \* the generation call: entry point, min_words, max_words, edges
    tries,      \* generate_sequence: tries
    generated,  \* generate_sequence: generated
    edge,       \* generate_sequence: edge, as its 1-based position in edges
    walk,       \* the edges chosen so far in the attempt last started
    rng,        \* number of values drawn from the random source
    attempts,   \* number of attempts the generation call has started
    result,     \* what the generation call returned
    seed,       \* the values the random source yields, in order and again from
                \* the first after the last; NoSeed when nothing is known of it
    previous    \* the generation call made before this one, and its result

dump_vars == <<dump, events, msg, flushed>>

ingest_vars == <<words, sources, call, calls, drawn, dump, events, msg, flushed>>

rng_vars == <<seed, previous>>

gen_vars == <<pc, gen, tries, generated, edge, walk, rng, attempts, result, seed, previous>>

vars ==
    <<words, sources, call, calls, drawn, dump, events, msg, flushed, pc, gen,
      tries, generated, edge, walk, rng, attempts, result, seed, previous>>

NoCall == [kind |-> "none"]

NoGen == [kind |-> "none"]

NoResult == [returned |-> FALSE]

\* ExtractedMessage::default()
DefaultMessage == [names |-> <<>>, datestamp |-> DefaultDatestamp, body |-> <<>>]

InitDump ==
    /\ dump = "idle"
    /\ events = <<>>
    /\ msg = DefaultMessage
    /\ flushed = <<>>

NoSeed == <<>>

NoPrevious == [kind |-> "none"]

InitRng ==
    /\ seed = NoSeed
    /\ previous = NoPrevious

InitGen ==
    /\ pc = "idle"
    /\ gen = NoGen
    /\ tries = 0
    /\ generated = <<>>
    /\ edge = 0
    /\ walk = <<>>
    /\ rng = 0
    /\ attempts = 0
    /\ result = NoResult

Init ==
    /\ words = <<>>
    /\ sources = <<>>
    /\ call = NoCall
    /\ calls = 0
    /\ drawn = FALSE
    /\ InitDump
    /\ InitGen
    /\ InitRng

\* The body shared by append_text and append_message: resolve the source,
\* then push the entries of the text into it.
Ingest(kind, text, names, datestamp, punct) ==
    LET resolved == source_by_names(sources, names)
        k == resolved.idx + 1
        pushed == push_text_entries(text, datestamp, resolved.sources[k].entries,
                                    words, punct)
    IN  /\ words' = pushed.words
        /\ sources' = [resolved.sources EXCEPT ![k].entries = pushed.entries]
        /\ call' = [kind |-> kind, text |-> text, names |-> names,
                    datestamp |-> datestamp, idx |-> resolved.idx,
                    created |-> (Len(resolved.sources) > Len(sources)),
                    before |-> Len(resolved.sources[k].entries),
                    words_before |-> words,
                    sources_before |-> sources]
        /\ calls' = calls + 1
        /\ UNCHANGED gen_vars

\* MarkovChain::append_text
append_text(text, source_names, datestamp) ==
    /\ Ingest("text", text, source_names, datestamp, TRUE)
    /\ UNCHANGED dump_vars

\* append_message, called by append_message_dump for a message whose body
\* is not empty
append_message(message) ==
    /\ message.body # <<>>
    /\ Ingest("message", message.body, message.names, message.datestamp, FALSE)

\* ------------------------------------------------------------------------
\* Spec: ingestion of every text over Chars, into the empty chain or into
\* the chain left by the ingestion of a seed text
\* ------------------------------------------------------------------------
Texts == SeqsUpTo(Chars, MaxChars)

SeedTexts == {<<"a", " ", "a", " ", ".">>, <<".", "a">>}

TextNameLists == {<<"x">>}

SeedText ==
    /\ calls = 0
    /\ \E text \in SeedTexts, names \in TextNameLists :
           append_text(text, names, DefaultDatestamp)
    /\ UNCHANGED drawn

SeedMessage ==
    /\ calls = 0
    /\ \E body \in SeedTexts, names \in TextNameLists :
           append_message([names |-> names, datestamp |-> DefaultDatestamp,
                           body |-> body])
    /\ UNCHANGED drawn
    /\ UNCHANGED dump_vars

AppendText ==
    /\ ~drawn
    /\ \E text \in Texts, names \in TextNameLists :
           append_text(text, names, DefaultDatestamp)
    /\ drawn' = TRUE

AppendMessage ==
    /\ ~drawn
    /\ \E body \in Texts, names \in TextNameLists :
           append_message([names |-> names, datestamp |-> DefaultDatestamp,
                           body |-> body])
    /\ drawn' = TRUE
    /\ UNCHANGED dump_vars

Next == SeedText \/ SeedMessage \/ AppendText \/ AppendMessage

Spec == Init /\ [][Next]_vars

\* ------------------------------------------------------------------------
\* SpecSources: ingestion under every alias list, of a few sample texts
\* ------------------------------------------------------------------------
SampleTexts == {<<>>, <<"a", " ", "a", " ", ".">>}

AppendTextNamed ==
    /\ calls < MaxCalls
    /\ \E text \in SampleTexts, names \in NameLists, d \in Datestamps :
           append_text(text, names, d)
    /\ UNCHANGED drawn

AppendMessageNamed ==
    /\ calls < MaxCalls
    /\ \E body \in SampleTexts, names \in NameLists, d \in Datestamps :
           append_message([names |-> names, datestamp |-> d, body |-> body])
    /\ UNCHANGED drawn
    /\ UNCHANGED dump_vars

NextSources == AppendTextNamed \/ AppendMessageNamed

SpecSources == Init /\ [][NextSources]_vars

\* ------------------------------------------------------------------------
\* append_message_dump
\* ------------------------------------------------------------------------
Digits == <<"0", "1", "2", "3", "4", "5", "6", "7", "8", "9">>

IsDigit(c) == c \in Range(Digits)

RECURSIVE Number(_)
Number(s) ==
    IF s = <<>> THEN 0
    ELSE Number(SubSeq(s, 1, Len(s) - 1)) * 10 + (IndexOf(Digits, s[Len(s)]) - 1)

is_leap_year(year) == (year % 4 = 0 /\ year % 100 # 0) \/ year % 400 = 0

days_in_month(year, month) ==
    IF month = 2 THEN (IF is_leap_year(year) THEN 29 ELSE 28)
    ELSE IF month \in {4, 6, 9, 11} THEN 30
    ELSE 31

\* Datelike::ordinal: the day of the year, from 1.
RECURSIVE ordinal(_, _, _)
ordinal(year, month, day) ==
    IF month = 1 THEN day
    ELSE days_in_month(year, month - 1) + ordinal(year, month - 1, day)

\* NaiveDateTime::parse_from_str(date, "%Y.%m.%d %H:%M:%S") on a text of
\* the shape YYYY.MM.DD HH:MM:SS; anything else is an error.
parse_from_str(date) ==
    IF /\ Len(date) = 19
       /\ date[5] = "." /\ date[8] = "." /\ date[11] = " "
       /\ date[14] = ":" /\ date[17] = ":"
       /\ \A i \in (1..19) \ {5, 8, 11, 14, 17} : IsDigit(date[i])
    THEN LET year == Number(SubSeq(date, 1, 4))
             month == Number(SubSeq(date, 6, 7))
             day == Number(SubSeq(date, 9, 10))
             hour == Number(SubSeq(date, 12, 13))
             minute == Number(SubSeq(date, 15, 16))
             second == Number(SubSeq(date, 18, 19))
         IN  IF /\ month \in 1..12
                /\ day \in 1..days_in_month(year, month)
                /\ hour <= 23 /\ minute <= 59 /\ second <= 60
             THEN [ok |-> TRUE, year |-> year, month |-> month, day |-> day]
             ELSE [ok |-> FALSE]
    ELSE [ok |-> FALSE]

\* Datestamp { year: timestamp.year() as i16, day: timestamp.ordinal() as u16 }
to_datestamp(timestamp) ==
    [year |-> timestamp.year, day |-> ordinal(timestamp.year, timestamp.month, timestamp.day)]

\* The events of the reader.
Start(depth) == [type |-> "Start", depth |-> depth]

FullNameExtracted(full_name) == [type |-> "FullNameExtracted", full_name |-> full_name]

ShortNameExtracted(short_name) == [type |-> "ShortNameExtracted", short_name |-> short_name]

DateExtracted(date) == [type |-> "DateExtracted", date |-> date]

BodyPartExtracted(body) == [type |-> "BodyPartExtracted", body |-> body]

\* Mutant of has_last_message: the message in flight at the end of the
\* stream is taken to be absent.
no_last_message(last_msg) == FALSE

\* if !last_msg.body.is_empty(), after the fold
has_last_message(last_msg) == last_msg.body # <<>>

\* if !msg.body.is_empty(), at a message boundary
has_body(m) == m.body # <<>>

\* append_message(self, msg) as called by append_message_dump
Flush(m) ==
    /\ append_message(m)
    /\ flushed' = Append(flushed, m)

\* The call: fold_html starts with the default message.
append_message_dump ==
    /\ dump = "idle"
    /\ dump' = "fold"
    /\ events' = <<>>
    /\ msg' = DefaultMessage
    /\ flushed' = <<>>
    /\ UNCHANGED <<words, sources, call, calls, drawn>>
    /\ UNCHANGED gen_vars

\* The closure, applied to the next event of the stream.
OnEvent(event) ==
    /\ dump = "fold"
    /\ events' = Append(events, event)
    /\ drawn' = drawn
    /\ IF event.type = "Start" /\ event.depth = 0
       THEN /\ IF has_body(msg)
               THEN Flush(msg)
               ELSE UNCHANGED <<words, sources, call, calls, flushed>>
                       /\ UNCHANGED gen_vars
            /\ msg' = DefaultMessage
            /\ dump' = dump
       ELSE /\ UNCHANGED <<words, sources, call, calls, flushed>>
            /\ UNCHANGED gen_vars
            /\ IF event.type = "FullNameExtracted"
               THEN /\ msg' = [msg EXCEPT !.names = Append(@, event.full_name)]
                    /\ dump' = dump
               ELSE IF event.type = "ShortNameExtracted"
               THEN /\ msg' = [msg EXCEPT !.names = Append(@, event.short_name)]
                    /\ dump' = dump
               ELSE IF event.type = "DateExtracted"
               THEN LET timestamp == parse_from_str(event.date)
                    IN  IF timestamp.ok
                        THEN /\ msg' = [msg EXCEPT !.datestamp = to_datestamp(timestamp)]
                             /\ dump' = dump
                        ELSE /\ msg' = msg
                             /\ dump' = "panicked"
               ELSE IF event.type = "BodyPartExtracted"
               THEN /\ msg' = [msg EXCEPT !.body = @ \o event.body]
                    /\ dump' = dump
               ELSE /\ msg' = msg
                    /\ dump' = dump

\* The fold is over: the message in flight is appended when it has a body.
EndOfStream ==
    /\ dump = "fold"
    /\ IF has_last_message(msg)
       THEN Flush(msg)
       ELSE UNCHANGED <<words, sources, call, calls, flushed>> /\ UNCHANGED gen_vars
    /\ dump' = "returned"
    /\ UNCHANGED <<drawn, events, msg>>

\* ------------------------------------------------------------------------
\* SpecDump: one append_message_dump call, the reader yielding any stream
\* of up to MaxEvents events
\* ------------------------------------------------------------------------
DumpDates ==
    {<<"2", "0", "1", "8", ".", "0", "3", ".", "0", "1", " ",
       "1", "1", ":", "0", "5", ":", "1", "3">>,
     <<"0", "1", ".", "0", "3", ".", "2", "0", "1", "8">>}

DumpEvents ==
    {Start(0), Start(1), FullNameExtracted("x"), ShortNameExtracted("y"),
     BodyPartExtracted(<<"a", " ", "a", " ">>), BodyPartExtracted(<<"a">>)}
        \cup {DateExtracted(d) : d \in DumpDates}

NextEvent ==
    /\ Len(events) < MaxEvents
    /\ \E event \in DumpEvents : OnEvent(event)

NextDump == append_message_dump \/ NextEvent \/ EndOfStream

SpecDump == Init /\ [][NextDump]_vars

\* ------------------------------------------------------------------------
\* Generation
\* ------------------------------------------------------------------------
\* Datestamp comparison: lexicographic on (year, day).
datestamp_le(a, b) == a.year < b.year \/ (a.year = b.year /\ a.day <= b.day)

\* sources.into_iter().flat_map(|s| &s.entries)
RECURSIVE flat_entries(_)
flat_entries(srcs) ==
    IF srcs = <<>> THEN <<>>
    ELSE srcs[1].entries \o flat_entries(Tail(srcs))

\* Mutant of in_date_range: the upper end of the range is not tested.
in_date_range_from(e, date_range) == datestamp_le(date_range[1], e.datestamp)

\* Mutant of in_date_range: the ends of the range are left out.
in_date_range_exclusive(e, date_range) ==
    /\ ~datestamp_le(e.datestamp, date_range[1])
    /\ ~datestamp_le(date_range[2], e.datestamp)

\* Mutant of in_date_range: the lower end of the range is not tested.
in_date_range_to(e, date_range) == datestamp_le(e.datestamp, date_range[2])

\* |e| e.datestamp >= date_range.0 && e.datestamp <= date_range.1
in_date_range(e, date_range) ==
    /\ datestamp_le(date_range[1], e.datestamp)
    /\ datestamp_le(e.datestamp, date_range[2])

\* [String]::join(" ")
RECURSIVE join(_)
join(strs) ==
    IF strs = <<>> THEN <<>>
    ELSE IF Len(strs) = 1 THEN strs[1]
    ELSE strs[1] \o <<" ">> \o join(Tail(strs))

\* IndexSet::get_index
get_index(set, idx) ==
    IF idx < Len(set) THEN [some |-> TRUE, value |-> set[idx + 1]] ELSE [some |-> FALSE]

\* Mutant of resolve_all: the output stops at the first id that does not
\* resolve.
RECURSIVE resolve_until_missing(_, _)
resolve_until_missing(seq, wds) ==
    IF seq = <<>> THEN <<>>
    ELSE LET w == get_index(wds, seq[1])
         IN  IF w.some THEN <<w.value>> \o resolve_until_missing(Tail(seq), wds)
             ELSE <<>>

\* .filter_map(|word_idx| words.get_index(word_idx as usize)...)
RECURSIVE resolve_all(_, _)
resolve_all(seq, wds) ==
    IF seq = <<>> THEN <<>>
    ELSE LET w == get_index(wds, seq[1])
         IN  (IF w.some THEN <<w.value>> ELSE <<>>) \o resolve_all(Tail(seq), wds)

seq_to_text(seq, wds) == join(resolve_all(seq, wds))

Some(seq) == [returned |-> TRUE, some |-> TRUE, seq |-> seq, text |-> seq_to_text(seq, words)]

None == [returned |-> TRUE, some |-> FALSE]

\* !edges.is_empty()
has_edges(edges) == edges # <<>>

\* Mutant of may_try: one attempt too many.
may_try_once_more(t) == t <= MAX_TRIES

\* tries < MAX_TRIES
may_try(t) == t < MAX_TRIES

\* Mutant of can_finish: min_words is not tested.
can_finish_any_length(len, min_words, e) == e.suffix.is_terminal

\* Mutant of can_finish: the terminal flag of the edge is not tested.
can_finish_any_record(len, min_words, e) == len >= min_words

\* generated.len() >= min_words && edge.suffix.is_terminal()
can_finish(len, min_words, e) == len >= min_words /\ e.suffix.is_terminal

\* Mutant of reached_max: a buffer of exactly max_words ids goes on.
reached_max_strict(len, max_words) == len > max_words

\* Mutant of reached_max: one more edge is walked before max_words stops
\* the attempt.
reached_max_late(len, max_words) == len >= max_words + NGRAM_CNT

\* Mutant of reached_max: max_words is taken as a number of edges.
reached_max_twice(len, max_words) == len >= NGRAM_CNT * max_words

\* generated.len() >= max_words
reached_max(len, max_words) == len >= max_words

\* The entry points: collect the edges; return None when there are none,
\* else enter generate_sequence.
StartGeneration(kind, date_range, edges, min_words, max_words) ==
    /\ pc = "idle"
    /\ gen' = [kind |-> kind, date_range |-> date_range, edges |-> edges,
               min_words |-> min_words, max_words |-> max_words]
    /\ IF has_edges(edges)
       THEN /\ pc' = "try"
            /\ result' = result
       ELSE /\ pc' = "done"
            /\ result' = None
    /\ tries' = 0
    /\ generated' = <<>>
    /\ UNCHANGED <<edge, walk, rng, attempts>>
    /\ UNCHANGED ingest_vars
    /\ UNCHANGED rng_vars

generate(srcs, min_words, max_words) ==
    StartGeneration("generate", <<>>, flat_entries(srcs), min_words, max_words)

generate_in_date_range(srcs, date_range, min_words, max_words) ==
    StartGeneration("generate_in_date_range", date_range,
                    SelectSeq(flat_entries(srcs), LAMBDA e : in_date_range(e, date_range)),
                    min_words, max_words)

\* Mutant of choose: the position does not come from the random source.
choose_any(n) == 1..n

\* SliceRandom::choose on a slice of n elements: the positions (from 1) the
\* random source may yield.  With a seed it is the one position that the
\* next value of the source gives.
choose(n) ==
    IF seed = NoSeed THEN 1..n
    ELSE {(seed[(rng % Len(seed)) + 1] % n) + 1}

\* while tries < MAX_TRIES { let mut edge = edges.choose(rng).unwrap();
StartAttempt ==
    /\ pc = "try"
    /\ may_try(tries)
    /\ \E i \in choose(Len(gen.edges)) : edge' = i /\ walk' = <<i>>
    /\ rng' = rng + 1
    /\ attempts' = attempts + 1
    /\ pc' = "walk"
    /\ UNCHANGED <<gen, tries, generated, result>>
    /\ UNCHANGED ingest_vars
    /\ UNCHANGED rng_vars

\* The while condition fails: None
Exhausted ==
    /\ pc = "try"
    /\ ~may_try(tries)
    /\ result' = None
    /\ pc' = "done"
    /\ UNCHANGED <<gen, tries, generated, edge, walk, rng, attempts>>
    /\ UNCHANGED ingest_vars
    /\ UNCHANGED rng_vars

\* generated.extend_from_slice(&edge.prefix)
Extend ==
    /\ pc = "walk"
    /\ generated' = generated \o gen.edges[edge].prefix.words
    /\ pc' = "check"
    /\ UNCHANGED <<gen, tries, edge, walk, rng, attempts, result>>
    /\ UNCHANGED ingest_vars
    /\ UNCHANGED rng_vars

\* Mutant of clear: the buffer is left as it is.
keep_buffer(buffer) == buffer

\* Vec::clear
clear(buffer) == <<>>

\* generated.clear(); tries += 1
Abandon ==
    /\ generated' = clear(generated)
    /\ tries' = tries + 1
    /\ pc' = "try"
    /\ UNCHANGED <<gen, edge, walk, rng, attempts, result>>

\* Mutant of next_edges: the second word of the prefix is compared.
next_edges_by_second(edges, e) ==
    {i \in 1..Len(edges) : edges[i].prefix.words[2] = e.suffix.word_idx}

\* edges.iter().filter(|e| e.prefix[0] == edge.suffix.word_idx())
next_edges(edges, e) ==
    {i \in 1..Len(edges) : edges[i].prefix.words[1] = e.suffix.word_idx}

\* The rest of the loop body after the prefix was appended.
Check ==
    /\ pc = "check"
    /\ LET e == gen.edges[edge]
       IN  IF can_finish(Len(generated), gen.min_words, e)
           THEN /\ generated' = Append(generated, e.suffix.word_idx)
                /\ result' = Some(generated')
                /\ pc' = "done"
                /\ UNCHANGED <<gen, tries, edge, walk, rng, attempts>>
           ELSE IF reached_max(Len(generated), gen.max_words)
           THEN Abandon
           ELSE IF next_edges(gen.edges, e) = {}
           THEN Abandon
           ELSE /\ \E k \in choose(Cardinality(next_edges(gen.edges, e))) :
                      LET i == CHOOSE i \in next_edges(gen.edges, e) :
                                   Cardinality({j \in next_edges(gen.edges, e) : j <= i}) = k
                      IN  edge' = i /\ walk' = Append(walk, i)
                /\ rng' = rng + 1
                /\ pc' = "walk"
                /\ UNCHANGED <<gen, tries, generated, attempts, result>>
    /\ UNCHANGED ingest_vars
    /\ UNCHANGED rng_vars

\* ------------------------------------------------------------------------
\* SpecGen: one generation call over a chain drawn from a bounded family
\* ------------------------------------------------------------------------
GenWordIds == {0, 1}

GenVocabulary == << <<"a">>, <<"b", ".">> >>

GenDatestamps == {[year |-> 2018, day |-> 21]}

GenEntries ==
    {ChainEntry(ChainPrefix_nonstarting(<<p0, p1>>),
                [word_idx |-> s, is_terminal |-> t], d) :
        p0 \in GenWordIds, p1 \in GenWordIds, s \in GenWordIds,
        t \in BOOLEAN, d \in GenDatestamps}

GenEntryLists == {<<>>} \cup {<<e>> : e \in GenEntries}

GenSources ==
    {<<TextSource(<<"x">>, e1), TextSource(<<"y">>, e2)>> :
        e1 \in GenEntryLists, e2 \in GenEntryLists}

GenDateRanges ==
    {<<[year |-> 2018, day |-> 10], [year |-> 2018, day |-> 21]>>,
     <<[year |-> 2017, day |-> 300], [year |-> 2018, day |-> 20]>>}

InitChain ==
    /\ \E n \in 1..Len(GenVocabulary) : words = SubSeq(GenVocabulary, 1, n)
    /\ sources \in GenSources
    /\ call = NoCall
    /\ calls = 0
    /\ drawn = FALSE
    /\ InitDump
    /\ InitGen
    /\ InitRng

Generate ==
    \E min_words \in 0..MaxMinWords, max_words \in 0..MaxMaxWords :
        generate(sources, min_words, max_words)

GenerateInDateRange ==
    \E min_words \in 0..MaxMinWords, max_words \in 0..MaxMaxWords,
       date_range \in GenDateRanges :
        generate_in_date_range(sources, date_range, min_words, max_words)

NextGen ==
    \/ Generate
    \/ GenerateInDateRange
    \/ StartAttempt
    \/ Exhausted
    \/ Extend
    \/ Check

SpecGen == InitChain /\ [][NextGen]_vars

\* ------------------------------------------------------------------------
\* SpecTwice: two generation calls over the same chain, with the same
\* min_words and max_words, each with a random source seeded alike
\* ------------------------------------------------------------------------
Seeds == {<<0>>, <<1>>, <<0, 1>>, <<1, 1, 0>>, <<2, 0, 1>>}

TwiceEntries ==
    {ChainEntry(ChainPrefix_starting(<<0, 1>>), ChainSuffix_nonterminal(0),
                [year |-> 2018, day |-> 21]),
     ChainEntry(ChainPrefix_nonstarting(<<0, 0>>), ChainSuffix_terminal(1),
                [year |-> 2018, day |-> 22]),
     ChainEntry(ChainPrefix_nonstarting(<<1, 0>>), ChainSuffix_terminal(0),
                [year |-> 2018, day |-> 21])}

TwiceSources ==
    {<<TextSource(<<"x">>, e1), TextSource(<<"y">>, e2)>> :
        e1 \in SeqsUpTo(TwiceEntries, 2), e2 \in SeqsUpTo(TwiceEntries, 1)}

TwiceDateRanges ==
    {<<[year |-> 2018, day |-> 21], [year |-> 2018, day |-> 22]>>,
     <<[year |-> 2018, day |-> 21], [year |-> 2018, day |-> 21]>>,
     <<[year |-> 2017, day |-> 300], [year |-> 2018, day |-> 21]>>,
     <<[year |-> 2018, day |-> 22], [year |-> 2019, day |-> 1]>>}

InitTwice ==
    /\ words = GenVocabulary
    /\ sources \in TwiceSources
    /\ call = NoCall
    /\ calls = 0
    /\ drawn = FALSE
    /\ InitDump
    /\ InitGen
    /\ seed \in Seeds
    /\ previous = NoPrevious

GenerateFirst ==
    /\ previous = NoPrevious
    /\ \E min_words \in 0..MaxMinWords, max_words \in 0..MaxMaxWords :
           generate(sources, min_words, max_words)

GenerateInDateRangeFirst ==
    /\ previous = NoPrevious
    /\ \E min_words \in 0..MaxMinWords, max_words \in 0..MaxMaxWords,
          date_range \in TwiceDateRanges :
           generate_in_date_range(sources, date_range, min_words, max_words)

\* The call has returned; the caller keeps the result and seeds a random
\* source as it seeded the first.
Again ==
    /\ pc = "done"
    /\ previous = NoPrevious
    /\ previous' = [kind |-> gen.kind, gen |-> gen, result |-> result]
    /\ pc' = "idle"
    /\ gen' = NoGen
    /\ tries' = 0
    /\ generated' = <<>>
    /\ edge' = 0
    /\ walk' = <<>>
    /\ rng' = 0
    /\ attempts' = 0
    /\ result' = NoResult
    /\ UNCHANGED seed
    /\ UNCHANGED ingest_vars

GenerateAgain ==
    /\ previous # NoPrevious
    /\ generate(sources, previous.gen.min_words, previous.gen.max_words)

GenerateInDateRangeAgain ==
    /\ previous # NoPrevious
    /\ \E date_range \in TwiceDateRanges :
           generate_in_date_range(sources, date_range, previous.gen.min_words,
                                  previous.gen.max_words)

NextTwice ==
    \/ GenerateFirst
    \/ GenerateInDateRangeFirst
    \/ Again
    \/ GenerateAgain
    \/ GenerateInDateRangeAgain
    \/ StartAttempt
    \/ Exhausted
    \/ Extend
    \/ Check

SpecTwice == InitTwice /\ [][NextTwice]_vars

\* ------------------------------------------------------------------------
\* SpecWalk: one generation call over a chain whose records form cycles.
\* generate and generate_in_date_range run to completion on the caller's
\* thread: a step of the call that can be taken is taken.
\* ------------------------------------------------------------------------
WalkEntries ==
    {ChainEntry(ChainPrefix_starting(<<0, 1>>), ChainSuffix_nonterminal(0),
                [year |-> 2018, day |-> 21]),
     ChainEntry(ChainPrefix_nonstarting(<<0, 0>>), ChainSuffix_nonterminal(1),
                [year |-> 2018, day |-> 21]),
     ChainEntry(ChainPrefix_nonstarting(<<1, 0>>), ChainSuffix_nonterminal(0),
                [year |-> 2018, day |-> 21]),
     ChainEntry(ChainPrefix_nonstarting(<<1, 0>>), ChainSuffix_terminal(0),
                [year |-> 2018, day |-> 21])}

WalkSources == {<<TextSource(<<"x">>, e)>> : e \in SeqsUpTo(WalkEntries, 2)}

InitWalk ==
    /\ words = GenVocabulary
    /\ sources \in WalkSources
    /\ call = NoCall
    /\ calls = 0
    /\ drawn = FALSE
    /\ InitDump
    /\ InitGen
    /\ InitRng

SpecWalk == InitWalk /\ [][NextGen]_vars /\ WF_vars(NextGen)

\* ------------------------------------------------------------------------
\* What the properties speak of
\* ------------------------------------------------------------------------
\* The tokens of a text, read off the text itself: a token starts at a
\* character that is neither ' ' nor '\n' and is the first of the text or
\* follows a ' ' or '\n', and runs up to the next ' ' or '\n'.
IsWordChar(c) == c # " " /\ c # "\n"

TokenStarts(text) ==
    {i \in 1..Len(text) : IsWordChar(text[i]) /\ (i = 1 \/ ~IsWordChar(text[i - 1]))}

TokenEnd(text, i) ==
    CHOOSE j \in i..Len(text) :
        /\ \A m \in i..j : IsWordChar(text[m])
        /\ (j = Len(text) \/ ~IsWordChar(text[j + 1]))

Tokens(text) ==
    [k \in 1..Cardinality(TokenStarts(text)) |->
        LET i == CHOOSE i \in TokenStarts(text) :
                     Cardinality({j \in TokenStarts(text) : j <= i}) = k
        IN  SubSeq(text, i, TokenEnd(text, i))]

EndsInPunct(token) == token # <<>> /\ token[Len(token)] \in {".", "!", "?"}

\* The id of a word of the vocabulary.
WordId(w) == CHOOSE id \in 0..(Len(words) - 1) : words[id + 1] = w

\* The records the last ingestion call appended.
Produced ==
    IF call.kind = "none" THEN <<>>
    ELSE LET entries == sources[call.idx + 1].entries
         IN  SubSeq(entries, call.before + 1, Len(entries))

\* The number of words of an output string.
WordCount(text) ==
    Cardinality({i \in 1..Len(text) : text[i] # " " /\ (i = 1 \/ text[i - 1] = " ")})

\* The number of ids of a sequence that the vocabulary does not resolve.
Unresolved(seq) == Cardinality({i \in 1..Len(seq) : seq[i] >= Len(words)})

SetMin(S) == CHOOSE m \in S : \A x \in S : m <= x

\* ------------------------------------------------------------------------
\* C1
\* ------------------------------------------------------------------------
\* C1 as stated: of the records one append_text call produces, exactly the
\* last is terminal.
C1_LastRecordOnly ==
    (call.kind = "text" /\ Len(Produced) >= 1) =>
        \A i \in 1..Len(Produced) :
            Produced[i].suffix.is_terminal <=> (i = Len(Produced))

\* C1 amended: a record produced by append_text is terminal if and only if
\* the token that is its suffix ends with '.', '!' or '?'.
C1_TextTerminalByPunctuation ==
    call.kind = "text" =>
        \A i \in 1..Len(Produced) :
            Produced[i].suffix.is_terminal <=> EndsInPunct(Tokens(call.text)[i + 2])

C1_Witness ==
    /\ call.kind = "text"
    /\ Len(Produced) = 2
    /\ Produced[1].suffix.is_terminal
    /\ ~Produced[2].suffix.is_terminal

\* ------------------------------------------------------------------------
\* C2
\* ------------------------------------------------------------------------
\* C2 as stated: a record produced by append_message is terminal if and only
\* if the text of its suffix word ends with '.', '!' or '?'.
C2_MessageTerminalByPunctuation ==
    call.kind = "message" =>
        \A i \in 1..Len(Produced) :
            Produced[i].suffix.is_terminal
                <=> EndsInPunct(words[Produced[i].suffix.word_idx + 1])

\* C2 amended: a record produced by append_message is terminal if and only
\* if its three tokens are those of the final window of the body.
C2_MessageTerminalByFinalWindow ==
    call.kind = "message" =>
        LET toks == Tokens(call.text)
            L == Len(toks)
        IN  \A i \in 1..Len(Produced) :
                Produced[i].suffix.is_terminal
                    <=> SubSeq(toks, i, i + 2) = SubSeq(toks, L - 2, L)

C2_Witness ==
    /\ call.kind = "message"
    /\ Len(Produced) = 2
    /\ ~Produced[1].suffix.is_terminal
    /\ EndsInPunct(Tokens(call.text)[3])
    /\ Produced[2].suffix.is_terminal
    /\ ~EndsInPunct(Tokens(call.text)[4])

\* ------------------------------------------------------------------------
\* C3
\* ------------------------------------------------------------------------
\* C3 as stated: in an attempt, once the buffer has been filled to
\* max_words ids or more, no id is appended to it.
C3_NothingAppendedAtMax ==
    [][(pc = "check" /\ Len(generated) >= gen.max_words)
          => Len(generated') <= Len(generated)]_vars

\* C3 amended: in an attempt, once a prefix has been appended and the
\* buffer holds max_words ids or more, the attempt ends at once: it succeeds
\* by appending the suffix id of the current edge when that edge is terminal
\* and the buffer holds min_words ids or more, and is abandoned otherwise;
\* a prefix is appended only to an empty buffer or to one of fewer than
\* max_words ids.
C3_AttemptEndsAtMax ==
    [][/\ (pc = "check" /\ Len(generated) >= gen.max_words) =>
            \/ /\ gen.edges[edge].suffix.is_terminal
               /\ Len(generated) >= gen.min_words
               /\ generated' = Append(generated, gen.edges[edge].suffix.word_idx)
               /\ pc' = "done"
            \/ /\ ~(gen.edges[edge].suffix.is_terminal /\ Len(generated) >= gen.min_words)
               /\ generated' = <<>>
               /\ tries' = tries + 1
               /\ pc' = "try"
       /\ (pc = "walk" /\ generated' # generated) =>
            (generated = <<>> \/ Len(generated) < gen.max_words)]_vars

C3_Witness ==
    /\ pc = "done"
    /\ result.some
    /\ gen.max_words >= 2
    /\ Len(result.seq) = gen.max_words + 1
    /\ tries >= 1

\* ------------------------------------------------------------------------
\* C4
\* ------------------------------------------------------------------------
\* C4 as stated: a returned string has at least min_words words.
C4_OutputHasMinWords ==
    (result.returned /\ result.some) => WordCount(result.text) >= gen.min_words

\* C4 amended: the words of a returned string and the ids of the walk that
\* the vocabulary does not resolve number at least min_words + 1 together;
\* so the string has at least min_words words when all ids resolve.
C4_OutputAndUnresolved ==
    (result.returned /\ result.some) =>
        /\ WordCount(result.text) + Unresolved(result.seq) >= gen.min_words + 1
        /\ Unresolved(result.seq) = 0 => WordCount(result.text) >= gen.min_words

C4_Witness ==
    /\ result.returned
    /\ result.some
    /\ gen.min_words = 3
    /\ Unresolved(result.seq) = 0
    /\ WordCount(result.text) = 5

\* ------------------------------------------------------------------------
\* C5
\* ------------------------------------------------------------------------
\* C5: an ingestion of a text of L tokens appends max(0, L - 2) records to
\* the resolved source; the i-th has the ids of tokens i and i + 1 as prefix
\* and the id of token i + 2 as suffix.
C5_WindowCoverage ==
    call.kind # "none" =>
        LET toks == Tokens(call.text)
            L == Len(toks)
        IN  /\ Len(Produced) = (IF L >= 3 THEN L - 2 ELSE 0)
            /\ Len(sources[call.idx + 1].entries) = call.before + Len(Produced)
            /\ \A i \in 1..Len(Produced) :
                 /\ Produced[i].prefix.words = <<WordId(toks[i]), WordId(toks[i + 1])>>
                 /\ Produced[i].suffix.word_idx = WordId(toks[i + 2])

C5_Witness ==
    /\ call.kind # "none"
    /\ call.before >= 1
    /\ Len(Tokens(call.text)) = 4
    /\ Len(Produced) = 2
    /\ Produced[1].prefix.words # Produced[2].prefix.words

\* ------------------------------------------------------------------------
\* C6
\* ------------------------------------------------------------------------
SharedName(names1, names2) == Range(names1) \cap Range(names2) # {}

\* C6 as stated, for two appends in a row: the second goes into the source
\* of the first when their alias sets share a name, and creates a source
\* with its alias set when they share none.
C6_GroupedByPreviousAppend ==
    [][(call.kind # "none" /\ calls' = calls + 1) =>
          IF SharedName(call.names, call'.names)
          THEN call'.idx = call.idx
          ELSE /\ call'.created
               /\ Range(sources'[call'.idx + 1].names) = Range(call'.names)]_vars

\* C6 amended: an append with alias set S2 goes into the first source whose
\* alias set (the names it was created with) shares a name with S2, no
\* source being added or renamed, and creates a source with alias set S2 at
\* the end when no source shares a name with S2; so it goes into the source
\* of the append before it when that append created its source, shares a
\* name with S2, and no earlier source does.
C6_GroupedByFirstMatchingSource ==
    [][calls' = calls + 1 =>
          LET S2 == Range(call'.names)
              M == {k \in 1..Len(sources) : Range(sources[k].names) \cap S2 # {}}
          IN  /\ IF M # {}
                 THEN /\ call'.idx + 1 = SetMin(M)
                      /\ ~call'.created
                      /\ Len(sources') = Len(sources)
                      /\ \A k \in 1..Len(sources) : sources'[k].names = sources[k].names
                 ELSE /\ call'.created
                      /\ call'.idx = Len(sources)
                      /\ Len(sources') = Len(sources) + 1
                      /\ Range(sources'[Len(sources')].names) = S2
                      /\ \A k \in 1..Len(sources) : sources'[k].names = sources[k].names
              /\ (/\ call.kind # "none"
                  /\ call.created
                  /\ SharedName(call.names, call'.names)
                  /\ \A k \in 1..call.idx : Range(sources[k].names) \cap S2 = {})
                     => call'.idx = call.idx]_vars

C6_Witness ==
    /\ call.kind # "none"
    /\ ~call.created
    /\ call.idx = 1
    /\ Len(call.names) = 2
    /\ Len(sources) = 2
    /\ Len(Produced) >= 1

\* ------------------------------------------------------------------------
\* C7
\* ------------------------------------------------------------------------
FirstPos(toks, w) == SetMin({k \in 1..Len(toks) : toks[k] = w})

\* C7: an ingestion call keeps the id of every word already in the
\* vocabulary (the vocabulary before the call is the beginning of the one
\* after it), and gives the tokens not yet in it the next ids, one id a
\* distinct token, in the order of their first occurrence in the text; the
\* first id given is 0.
C7_Interning ==
    IF call.kind = "none" THEN words = <<>>
    ELSE LET toks == Tokens(call.text)
             n == Len(call.words_before)
             new == SubSeq(words, n + 1, Len(words))
         IN  /\ Len(words) >= n
             /\ SubSeq(words, 1, n) = call.words_before
             /\ Range(toks) \subseteq Range(words)
             /\ Range(new) \subseteq Range(toks) \ Range(call.words_before)
             /\ \A i \in 1..Len(new) : \A j \in (i + 1)..Len(new) :
                    /\ new[i] # new[j]
                    /\ FirstPos(toks, new[i]) < FirstPos(toks, new[j])

C7_Witness ==
    /\ calls = 2
    /\ Len(call.words_before) >= 1
    /\ Len(words) >= Len(call.words_before) + 2
    /\ Range(Tokens(call.text)) \cap Range(call.words_before) # {}
    /\ Tokens(call.text)[1] \notin Range(call.words_before)

\* ------------------------------------------------------------------------
\* C8
\* ------------------------------------------------------------------------
\* C8: no word of the vocabulary is the empty string.
C8_NoEmptyWord == \A i \in 1..Len(words) : words[i] # <<>>

C8_Witness ==
    /\ call.kind # "none"
    /\ Len(words) >= 2
    /\ ~IsWordChar(call.text[1])
    /\ ~IsWordChar(call.text[Len(call.text)])
    /\ \E i \in 1..(Len(call.text) - 1) :
           call.text[i] = " " /\ call.text[i + 1] = "\n"

\* ------------------------------------------------------------------------
\* C9
\* ------------------------------------------------------------------------
\* C9: a generation call over a pool that is not empty starts at most
\* MAX_TRIES attempts; when it returns a sequence, it is the buffer of the
\* attempt in progress and every attempt before it was abandoned; it returns
\* nothing exactly when MAX_TRIES attempts were started and abandoned.
C9_RetryBudget ==
    /\ attempts <= MAX_TRIES
    /\ tries <= attempts
    /\ (pc = "done" /\ gen.edges # <<>>) =>
          IF result.some
          THEN /\ attempts = tries + 1
               /\ tries < MAX_TRIES
               /\ result.seq = generated
          ELSE /\ attempts = MAX_TRIES
               /\ tries = MAX_TRIES

C9_Witness ==
    /\ pc = "done"
    /\ gen.edges # <<>>
    /\ ~result.some
    /\ attempts = MAX_TRIES

\* ------------------------------------------------------------------------
\* C10
\* ------------------------------------------------------------------------
\* No record of the given sources is eligible: there is none, or the call
\* has a date range and no record is dated within it.
NoEligibleRecord ==
    \A k \in 1..Len(sources) : \A i \in 1..Len(sources[k].entries) :
        LET d == sources[k].entries[i].datestamp
            lo == gen.date_range[1]
            hi == gen.date_range[2]
        IN  /\ gen.kind = "generate_in_date_range"
            /\ \/ d.year < lo.year
               \/ (d.year = lo.year /\ d.day < lo.day)
               \/ d.year > hi.year
               \/ (d.year = hi.year /\ d.day > hi.day)

\* C10: a generation call with no eligible record returns nothing, starts no
\* attempt and draws nothing from the random source.
C10_NoEligibleMaterial ==
    (gen.kind # "none" /\ NoEligibleRecord) =>
        /\ pc = "done"
        /\ result.returned
        /\ ~result.some
        /\ attempts = 0
        /\ tries = 0
        /\ rng = 0

C10_Witness ==
    /\ gen.kind = "generate_in_date_range"
    /\ \E k \in 1..Len(sources) : sources[k].entries # <<>>
    /\ NoEligibleRecord
    /\ pc = "done"
    /\ ~result.some

\* ------------------------------------------------------------------------
\* C13
\* ------------------------------------------------------------------------
\* The positions of a sequence whose id the vocabulary resolves.
Resolvable(seq) == {i \in 1..Len(seq) : seq[i] < Len(words)}

\* The k-th smallest element of a set of numbers.
KthOf(S, k) == CHOOSE i \in S : Cardinality({j \in S : j <= i}) = k

\* C13: a successful walk returns a string also when ids of the walk are
\* out of range of the vocabulary; the words of the string are the words of
\* the resolvable ids, in walk order, and they are separated by single
\* spaces with no space at either end; the unresolvable ids leave nothing.
C13_UnresolvableIdsOmitted ==
    (result.returned /\ result.some) =>
        LET keep == Resolvable(result.seq)
            text == result.text
            toks == Tokens(text)
        IN  /\ Len(toks) = Cardinality(keep)
            /\ \A k \in 1..Len(toks) : toks[k] = words[result.seq[KthOf(keep, k)] + 1]
            /\ \A i \in 1..Len(text) :
                   text[i] = " " => (i > 1 /\ i < Len(text) /\ text[i + 1] # " ")

C13_Witness ==
    /\ result.returned
    /\ result.some
    /\ \E i \in 1..Len(result.seq) : \E j \in (i + 1)..Len(result.seq) :
           /\ result.seq[i] >= Len(words)
           /\ result.seq[j] < Len(words)
    /\ Len(Tokens(result.text)) = 2

\* ------------------------------------------------------------------------
\* C17
\* ------------------------------------------------------------------------
\* C17: a returned id sequence ends with the two prefix ids and then the
\* suffix id of the edge the attempt was on, which is a terminal record of
\* the pool, and the buffer held min_words ids or more before the suffix
\* id was appended.
C17_EndsWithTerminalRecord ==
    (result.returned /\ result.some) =>
        LET seq == result.seq
            n == Len(seq)
            e == gen.edges[edge]
        IN  /\ n >= NGRAM_CNT + 1
            /\ n - 1 >= gen.min_words
            /\ edge \in 1..Len(gen.edges)
            /\ e.suffix.is_terminal
            /\ seq[n] = e.suffix.word_idx
            /\ SubSeq(seq, n - NGRAM_CNT, n - 1) = e.prefix.words

C17_Witness ==
    /\ result.returned
    /\ result.some
    /\ gen.min_words = 3
    /\ Len(result.seq) = 5
    /\ \E i \in 1..Len(gen.edges) : ~gen.edges[i].suffix.is_terminal
    /\ result.seq[1] # result.seq[3]

\* ------------------------------------------------------------------------
\* C19
\* ------------------------------------------------------------------------
\* C19: of the records one ingestion call produces, the first is flagged
\* starting, and every later one is flagged starting if and only if the
\* record produced right before it is terminal.
C19_StartingFlag ==
    \A i \in 1..Len(Produced) :
        Produced[i].prefix.starting
            <=> (i = 1 \/ Produced[i - 1].suffix.is_terminal)

C19_Witness ==
    /\ call.kind = "text"
    /\ call.before >= 1
    /\ Len(Produced) = 2
    /\ Produced[1].prefix.starting
    /\ ~Produced[1].suffix.is_terminal
    /\ ~Produced[2].prefix.starting

\* ------------------------------------------------------------------------
\* C20
\* ------------------------------------------------------------------------
\* The sources, as they were before the last ingestion call, whose alias
\* set has one of the names of the call.
Matching ==
    {k \in 1..Len(call.sources_before) :
        Range(call.sources_before[k].names) \cap Range(call.names) # {}}

\* C20: an ingestion call whose names meet the alias set of an existing
\* source leaves the number and order of the sources and every alias set
\* as they were, appends its records to the first source that matches
\* and leaves the entries of every other source as they were.
C20_MatchingIngestionFrame ==
    (call.kind # "none" /\ Matching # {}) =>
        LET old == call.sources_before
            first == SetMin(Matching)
        IN  /\ Len(sources) = Len(old)
            /\ \A k \in 1..Len(old) : sources[k].names = old[k].names
            /\ \A k \in 1..Len(old) : k # first => sources[k].entries = old[k].entries
            /\ Len(sources[first].entries) >= Len(old[first].entries)
            /\ SubSeq(sources[first].entries, 1, Len(old[first].entries))
                   = old[first].entries
            /\ call.idx + 1 = first

C20_Witness ==
    /\ call.kind # "none"
    /\ Cardinality(Matching) = 2
    /\ call.names[1] \in Range(call.sources_before[2].names)
    /\ Len(sources[1].entries) > Len(call.sources_before[1].entries)
    /\ Len(call.sources_before[2].entries) >= 1

\* ------------------------------------------------------------------------
\* C14
\* ------------------------------------------------------------------------
\* C14 as stated: after any sequence of ingestion calls, every source has
\* an alias set that is not empty.
C14_AliasSetsNonEmpty == \A k \in 1..Len(sources) : sources[k].names # <<>>

\* ------------------------------------------------------------------------
\* C16
\* ------------------------------------------------------------------------
\* Record j of the pool may follow record i: the first word id of its prefix
\* is the suffix word id of record i.
Follows(i, j) == gen.edges[j].prefix.words[1] = gen.edges[i].suffix.word_idx

\* C16: in an attempt, an edge chosen after the first is a record of the
\* pool that may follow the edge chosen right before it; and when the next
\* edge is to be chosen (the attempt has not succeeded on the current edge)
\* and no record of the pool may follow the current edge, the attempt is
\* abandoned.
C16_WalkChaining ==
    [][/\ (walk' # walk /\ Len(walk') > 1) =>
            /\ walk' = Append(walk, edge')
            /\ edge' \in 1..Len(gen.edges)
            /\ Follows(walk[Len(walk)], edge')
       /\ (/\ pc = "check"
           /\ ~(gen.edges[edge].suffix.is_terminal /\ Len(generated) >= gen.min_words)
           /\ ~\E j \in 1..Len(gen.edges) : Follows(edge, j)) =>
            /\ pc' = "try"
            /\ tries' = tries + 1
            /\ generated' = <<>>
            /\ walk' = walk]_vars

C16_Witness ==
    /\ pc = "done"
    /\ result.some
    /\ tries >= 1
    /\ Len(walk) = 2
    /\ walk[1] # walk[2]
    /\ ~Follows(walk[2], walk[1])
    /\ gen.max_words > 2

\* ------------------------------------------------------------------------
\* C18
\* ------------------------------------------------------------------------
\* The prefix ids of a sequence of edges of the pool, in order.
RECURSIVE PrefixIds(_)
PrefixIds(w) ==
    IF w = <<>> THEN <<>>
    ELSE PrefixIds(SubSeq(w, 1, Len(w) - 1)) \o gen.edges[w[Len(w)]].prefix.words

\* C18: the buffer is empty when an attempt starts, and holds nothing but
\* the prefix ids of the edges of the attempt in progress; so a returned
\* sequence is the prefix ids of the edges of the successful attempt and
\* the suffix id of its last edge.
C18_AttemptsIndependent ==
    /\ pc = "try" => generated = <<>>
    /\ pc = "walk" => generated = PrefixIds(SubSeq(walk, 1, Len(walk) - 1))
    /\ pc = "check" => generated = PrefixIds(walk)
    /\ (pc = "done" /\ result.some) =>
          result.seq = Append(PrefixIds(walk), gen.edges[walk[Len(walk)]].suffix.word_idx)

C18_Witness ==
    /\ pc = "done"
    /\ result.some
    /\ tries >= 2
    /\ Len(walk) = 2
    /\ Len(result.seq) = 5

\* ------------------------------------------------------------------------
\* C15
\* ------------------------------------------------------------------------
\* The positions of the message-boundary events of the stream.
Cuts == {i \in 1..Len(events) : events[i].type = "Start" /\ events[i].depth = 0}

\* The events of segment k of the stream: segment 0 lies before the first
\* boundary, segment k between boundary k and the next boundary, or the end
\* of the stream.
Segment(k) ==
    LET lo == IF k = 0 THEN 0 ELSE KthOf(Cuts, k)
        hi == IF k = Cardinality(Cuts) THEN Len(events) + 1 ELSE KthOf(Cuts, k + 1)
    IN  SubSeq(events, lo + 1, hi - 1)

IsName(e) == e.type \in {"FullNameExtracted", "ShortNameExtracted"}

IsDate(e) == e.type = "DateExtracted"

IsBody(e) == e.type = "BodyPartExtracted"

RECURSIVE Concat(_)
Concat(parts) == IF parts = <<>> THEN <<>> ELSE parts[1].body \o Concat(Tail(parts))

\* The datestamp of the one date of DumpDates that parses (1 March 2018 is
\* day 31 + 28 + 1 of its year).
DumpDay == [year |-> 2018, day |-> 60]

\* The message the events of a segment describe: its names in order, the
\* body parts put together in order, the day of its last date.
MessageOf(seg) ==
    LET names == SelectSeq(seg, IsName)
    IN  [names |-> [i \in 1..Len(names) |->
                       IF names[i].type = "FullNameExtracted"
                       THEN names[i].full_name ELSE names[i].short_name],
         datestamp |-> IF SelectSeq(seg, IsDate) = <<>> THEN [year |-> 0, day |-> 0]
                       ELSE DumpDay,
         body |-> Concat(SelectSeq(seg, IsBody))]

HasField(seg) == \E i \in 1..Len(seg) : IsName(seg[i]) \/ IsDate(seg[i]) \/ IsBody(seg[i])

HasBodyText(seg) == \E i \in 1..Len(seg) : IsBody(seg[i]) /\ seg[i].body # <<>>

\* The messages of segments lo..hi, in stream order: those with a field
\* when with_body is FALSE, those with body text when it is TRUE.
RECURSIVE MessagesFrom(_, _, _)
MessagesFrom(lo, hi, with_body) ==
    IF lo > hi THEN <<>>
    ELSE (IF (IF with_body THEN HasBodyText(Segment(lo)) ELSE HasField(Segment(lo)))
          THEN <<MessageOf(Segment(lo))>> ELSE <<>>)
             \o MessagesFrom(lo + 1, hi, with_body)

\* C15 as stated: when the call returns, the messages of the stream (the
\* fields between two boundaries, or between the last boundary and the end)
\* have each been flushed once, in stream order, after what the call
\* flushed for the events before the first boundary.
C15_EveryMessageFlushed ==
    dump = "returned" =>
        flushed = MessagesFrom(0, 0, TRUE) \o MessagesFrom(1, Cardinality(Cuts), FALSE)

\* C15 amended: when the call returns, the messages with a body that is
\* not empty, that of the events before the first boundary included, have
\* each been flushed once in stream order, the last of them at the end of
\* the stream when no boundary follows it; a message with an empty body is
\* not flushed; and each flush is one ingestion call.
C15_MessagesWithBodyFlushed ==
    dump = "returned" =>
        /\ flushed = MessagesFrom(0, Cardinality(Cuts), TRUE)
        /\ calls = Len(flushed)
        /\ flushed # <<>> =>
              /\ call.kind = "message"
              /\ call.text = flushed[Len(flushed)].body
              /\ call.names = flushed[Len(flushed)].names
              /\ call.datestamp = flushed[Len(flushed)].datestamp

C15_Witness ==
    /\ dump = "returned"
    /\ Cardinality(Cuts) >= 1
    /\ Len(flushed) = 2
    /\ IsBody(events[Len(events)])
    /\ flushed[1].names # flushed[2].names
    /\ flushed[2].datestamp = DumpDay

\* ------------------------------------------------------------------------
\* C11
\* ------------------------------------------------------------------------
\* Two calls returned the same: both nothing, or the same string.
SameOutcome(r1, r2) == r1.some = r2.some /\ (r1.some => r1.text = r2.text)

\* A day as one number; a year has fewer than 1000 days.
DayNumber(d) == d.year * 1000 + d.day

\* The range contains the datestamp of every record of the sources.
ContainsAll(date_range) ==
    \A k \in 1..Len(sources) : \A i \in 1..Len(sources[k].entries) :
        /\ DayNumber(date_range[1]) <= DayNumber(sources[k].entries[i].datestamp)
        /\ DayNumber(sources[k].entries[i].datestamp) <= DayNumber(date_range[2])

\* The second of two calls has returned, and both were given the same
\* min_words and max_words.
BothReturned ==
    /\ previous # NoPrevious
    /\ pc = "done"
    /\ gen.min_words = previous.gen.min_words
    /\ gen.max_words = previous.gen.max_words

\* C11: of two calls over the same chain and sources, with the same
\* min_words and max_words and random sources in the same state, one
\* generate and one generate_in_date_range with a range that contains the
\* datestamp of every record, both return the same.
C11_FullRangeAsNoFilter ==
    /\ (BothReturned /\ previous.kind = "generate"
           /\ gen.kind = "generate_in_date_range" /\ ContainsAll(gen.date_range))
          => SameOutcome(previous.result, result)
    /\ (BothReturned /\ previous.kind = "generate_in_date_range"
           /\ gen.kind = "generate" /\ ContainsAll(previous.gen.date_range))
          => SameOutcome(previous.result, result)

C11_Witness ==
    /\ BothReturned
    /\ previous.kind = "generate"
    /\ gen.kind = "generate_in_date_range"
    /\ ContainsAll(gen.date_range)
    /\ \E i \in 1..Len(gen.edges) : gen.edges[i].datestamp = gen.date_range[1]
    /\ \E i \in 1..Len(gen.edges) : gen.edges[i].datestamp = gen.date_range[2]
    /\ gen.date_range[1] # gen.date_range[2]
    /\ result.some
    /\ tries >= 1

\* ------------------------------------------------------------------------
\* C12
\* ------------------------------------------------------------------------
\* C12: two calls of the same entry point over the same chain and sources,
\* with the same min_words and max_words and the same date range, each
\* with a random source in the same state, return the same.
C12_Determinism ==
    (BothReturned /\ gen.kind = previous.kind
       /\ (gen.kind = "generate_in_date_range" => gen.date_range = previous.gen.date_range))
      => SameOutcome(previous.result, result)

C12_Witness ==
    /\ BothReturned
    /\ gen.kind = previous.kind
    /\ gen.kind = "generate_in_date_range" => gen.date_range = previous.gen.date_range
    /\ Len(gen.edges) >= 2
    /\ Len(seed) >= 2
    /\ result.some
    /\ tries >= 1
    /\ Len(walk) >= 2

\* ------------------------------------------------------------------------
\* C21
\* ------------------------------------------------------------------------
\* C21: every prefix word id and the suffix word id of every record of
\* every source is smaller than the size of the vocabulary.
C21_IdsInVocabulary ==
    \A k \in 1..Len(sources) : \A i \in 1..Len(sources[k].entries) :
        LET e == sources[k].entries[i]
        IN  /\ Len(e.prefix.words) = NGRAM_CNT
            /\ \A j \in 1..NGRAM_CNT :
                   e.prefix.words[j] >= 0 /\ e.prefix.words[j] < Len(words)
            /\ e.suffix.word_idx >= 0
            /\ e.suffix.word_idx < Len(words)

C21_Witness ==
    /\ calls = 2
    /\ Len(call.words_before) >= 2
    /\ Len(words) > Len(call.words_before)
    /\ call.before >= 1
    /\ Len(Produced) >= 1
    /\ Produced[1].prefix.words[1] < Len(call.words_before)
    /\ Produced[1].suffix.word_idx = Len(words) - 1

\* ------------------------------------------------------------------------
\* C22
\* ------------------------------------------------------------------------
\* The records of the first k sources, in the order of the sources and,
\* within a source, in the order of its records.
RECURSIVE RecordsOfFirst(_)
RecordsOfFirst(k) ==
    IF k = 0 THEN <<>> ELSE RecordsOfFirst(k - 1) \o sources[k].entries

\* a is before b in the order by year first and by day second.
Before(a, b) == a.year < b.year \/ (a.year = b.year /\ a.day < b.day)

Within(d, lo, hi) == ~Before(d, lo) /\ ~Before(hi, d)

\* C22: the pool of a generate_in_date_range call with the range (lo, hi)
\* is the records of the sources, in the order of the sources, whose
\* datestamp is neither before lo nor after hi in the order by (year, day);
\* a record dated lo or hi is in the pool.
C22_PoolIsRecordsInRange ==
    gen.kind = "generate_in_date_range" =>
        /\ gen.edges = SelectSeq(RecordsOfFirst(Len(sources)),
                                 LAMBDA e : Within(e.datestamp, gen.date_range[1],
                                                   gen.date_range[2]))
        /\ \A k \in 1..Len(sources) : \A i \in 1..Len(sources[k].entries) :
               LET d == sources[k].entries[i].datestamp
               IN  (d = gen.date_range[1] \/ d = gen.date_range[2])
                      => \E j \in 1..Len(gen.edges) :
                             gen.edges[j] = sources[k].entries[i]

\* The first call left out a record dated after hi and kept one dated
\* lo = hi; the second leaves out a record dated before lo, though its day
\* is larger than the day of hi, and keeps records of both sources, dated lo.
C22_Witness ==
    /\ previous # NoPrevious
    /\ previous.kind = "generate_in_date_range"
    /\ previous.gen.date_range[1] = previous.gen.date_range[2]
    /\ Len(previous.gen.edges) = 1
    /\ gen.kind = "generate_in_date_range"
    /\ pc = "done"
    /\ gen.date_range[2].year > gen.date_range[1].year
    /\ Len(sources[1].entries) = 2
    /\ Len(sources[2].entries) = 1
    /\ Before(sources[1].entries[1].datestamp, gen.date_range[1])
    /\ sources[1].entries[1].datestamp.day > gen.date_range[2].day
    /\ gen.edges = <<sources[1].entries[2], sources[2].entries[1]>>
    /\ gen.edges[1].datestamp = gen.date_range[1]
    /\ previous.gen.edges[1] = sources[1].entries[1]

\* ------------------------------------------------------------------------
\* C23
\* ------------------------------------------------------------------------
\* max(1, ceil(max_words / 2))
MostEdges(max_words) ==
    IF max_words <= 1 THEN 1 ELSE (max_words + 1) \div 2

\* The records of the pool form a cycle: every edge of the walk is followed
\* by an edge the walk has already taken.
WalkInCycle ==
    /\ Len(walk) >= 2
    /\ \A k \in 1..Len(walk) :
           \E i \in next_edges(gen.edges, gen.edges[walk[k]]) :
               \E j \in 1..Len(walk) : walk[j] = i

\* C23: an attempt walks at most max(1, ceil(max_words / 2)) edges and then
\* ends, in a return or in an abandonment; a generation call that was
\* started returns.
C23_Termination ==
    /\ [](gen.kind # "none" => Len(walk) <= MostEdges(gen.max_words))
    /\ (pc \in {"walk", "check"}) ~> (pc \in {"try", "done"})
    /\ (gen.kind # "none") ~> (pc = "done")

\* Every attempt of the call walked round a cycle until max_words stopped
\* it, and the call returned None.
C23_Witness ==
    /\ pc = "done"
    /\ result = None
    /\ tries = MAX_TRIES
    /\ gen.max_words = MaxMaxWords
    /\ Len(walk) = MostEdges(gen.max_words)
    /\ WalkInCycle

\* ------------------------------------------------------------------------
\* C24
\* ------------------------------------------------------------------------
\* C24: a returned id sequence is the 2-id prefixes of the k >= 1 edges of
\* the walk, one after the other, and then the suffix id of the last edge:
\* its length is 2k + 1, and at most max(max_words, 1) + 2.
C24_ReturnedLength ==
    (pc = "done" /\ result.some) =>
        LET k == Len(walk)
            seq == result.seq
        IN  /\ k >= 1
            /\ Len(seq) = 2 * k + 1
            /\ \A j \in 1..k :
                   /\ seq[2 * j - 1] = gen.edges[walk[j]].prefix.words[1]
                   /\ seq[2 * j] = gen.edges[walk[j]].prefix.words[2]
            /\ seq[2 * k + 1] = gen.edges[walk[k]].suffix.word_idx
            /\ Len(seq) <= (IF gen.max_words >= 1 THEN gen.max_words ELSE 1) + 2

\* A returned sequence of two edges, two ids longer than max_words.
C24_Witness ==
    /\ pc = "done"
    /\ result.some
    /\ Len(walk) = 2
    /\ gen.max_words = 3
    /\ Len(result.seq) = gen.max_words + 2

\* ------------------------------------------------------------------------
\* C25
\* ------------------------------------------------------------------------
\* The three word ids of a record: its prefix and its suffix.
IdsOf(e) == e.prefix.words \o <<e.suffix.word_idx>>

\* C25: of the records a call in the final-window mode produces, the last
\* is the final window of the text, and a record is terminal if and only
\* if its three word ids are those of the last.
C25_TerminalByFinalWindowIds ==
    (call.kind = "message" /\ Produced # <<>>) =>
        LET final == IdsOf(Produced[Len(Produced)])
            toks == Tokens(call.text)
        IN  /\ \A j \in 1..(NGRAM_CNT + 1) :
                   words[final[j] + 1] = toks[Len(toks) - (NGRAM_CNT + 1) + j]
            /\ \A i \in 1..Len(Produced) :
                   Produced[i].suffix.is_terminal <=> IdsOf(Produced[i]) = final

\* An earlier window with the ids of the final window is terminal, after a
\* call that found records in the source.
C25_Witness ==
    /\ call.kind = "message"
    /\ call.before >= 1
    /\ Len(Produced) = 2
    /\ IdsOf(Produced[1]) = IdsOf(Produced[2])
    /\ Produced[1].suffix.is_terminal
    /\ Produced[2].suffix.is_terminal

====
